---------------------------- MODULE Spec2Model ----------------------------
(***************************************************************************)
(* Model of script.py, the guild activity reporter: configuration from the *)
(* environment, safe_request (bounded retry), fetch_guild_members (roster  *)
(* parse), fetch_player_info (inactivity), main (per-member loop, sort,    *)
(* report file) and send_webhook_file (upload).                            *)
(*                                                                         *)
(* A Python dict is a TLA+ record; an absent key is a field missing from   *)
(* DOMAIN.  Python None is the string None.  Instants and durations are    *)
(* counted in half seconds, so that int(delta.total_seconds()) truncates.  *)
(* The environment is taken to honour the document schema of the two       *)
(* endpoints and the local write of OUTPUT_FILE to succeed.                *)
(***************************************************************************)
EXTENDS Integers, Sequences, FiniteSets, TLC

VARIABLES
    environ,        \* os.environ restricted to the two variables read
    GUILD_PREFIX,   \* module global, line 10
    WEBHOOK_URL,    \* module global, line 11
    pc,             \* position of the single control flow
    exit_code,      \* process exit status, NotExited while running
    error,          \* the exception that left main uncaught, None otherwise
    url,            \* argument of the safe_request call in progress
    attempt,        \* loop variable of safe_request
    fetched,        \* outcome of the last completed safe_request call
    data,           \* roster document, resp.json() at line 48
    members,        \* list returned by fetch_guild_members
    i,              \* enumerate index of the per-member loop (1-based)
    results,        \* list of ReportRows built by main
    file,           \* OUTPUT_FILE on disk
    posts,          \* number of requests.post calls issued
    upload,         \* how send_webhook_file ended
    requested,      \* history: set of URLs a GET was issued for
    exhausted,      \* history: set of URLs whose safe_request raised
    file0,          \* history: OUTPUT_FILE as it was when the process started
    log             \* history: responses seen by the safe_request call (SpecFetch)

vars == <<environ, GUILD_PREFIX, WEBHOOK_URL, pc, exit_code, error, url, attempt,
          fetched, data, members, i, results, file, posts, upload, requested,
          exhausted, file0, log>>

None == "None"

\* exit_code of a process that has not ended.
NotExited == -1

-----------------------------------------------------------------------------
(* Bounds of the model *)

\* Most player entries a roster document holds (over all its rank keys).
MaxPlayers == 2

-----------------------------------------------------------------------------
(* Program constants *)

MAX_RETRIES == 5

API_GUILD_URL(prefix) == <<"https://api.wynncraft.com/v3/guild/prefix/", prefix>>
API_PLAYER_URL(uuid) == <<"https://api.wynncraft.com/v3/player/", uuid>>

-----------------------------------------------------------------------------
(* safe_request *)

\* What one requests.get call can produce: a response with a status code, or a
\* RequestException raised before any response (timeout, connection error).
NetworkError == [kind |-> "RequestException"]
Response(code) == [kind |-> "Response", status_code |-> code]
StatusCodes == {200, 204, 304, 404, 429, 503}
GetOutcomes == {NetworkError} \cup {Response(c) : c \in StatusCodes}

\* Response.raise_for_status raises HTTPError (a RequestException) for 4xx and 5xx.
raise_for_status(resp) == 400 <= resp.status_code /\ resp.status_code < 600

\* One iteration of the for loop of safe_request on the outcome r of requests.get:
\* "return" (line 37), "continue" (next iteration) or "raise" (line 41, after the
\* last iteration).
LoopEnd_extra429(r, att) ==
    IF r.kind = "Response" /\ r.status_code = 429 /\ att <= MAX_RETRIES THEN "continue"
    ELSE IF att < MAX_RETRIES THEN "continue" ELSE "raise"
LoopEnd(r, att) == IF att < MAX_RETRIES THEN "continue" ELSE "raise"

safe_request_step(r, att) ==
    IF r.kind = "RequestException" THEN LoopEnd(r, att)        \* line 38
    ELSE IF r.status_code = 429 THEN LoopEnd(r, att)           \* lines 32-35
    ELSE IF raise_for_status(r) THEN LoopEnd(r, att)           \* lines 36, 38
    ELSE "return"                                              \* line 37

\* Whether some outcome of requests.get ends iteration att of the loop that way.
GetCanEnd(how, att) == {r \in GetOutcomes : safe_request_step(r, att) = how} # {}

FetchExhausted(u) == [type |-> "Exception", msg |-> <<"Failed to fetch after", MAX_RETRIES, "attempts:", u>>]

NotFetched == [state |-> "pending"]
Returned(r) == [state |-> "returned", resp |-> r]
Raised(e) == [state |-> "raised", exc |-> e]

-----------------------------------------------------------------------------
(* Documents served by the two endpoints *)

\* Keys of data["members"]: rank names, and the aggregate count key "total".
RankKeys == {"owner", "recruit", "total"}

\* The player entries of a document are named apart: entry p under the g-th rank
\* key has its own player name and its own uuid.
PlayerNames == <<<<"Ann", "Bob", "Cyd", "Dee">>, <<"Eve", "Fay", "Gus", "Hal">>,
                 <<"Ivy", "Jon", "Kim", "Lee">>>>
PlayerUuids == <<<<"u-ann", "u-bob", "u-cyd", "u-dee">>, <<"u-eve", "u-fay", "u-gus", "u-hal">>,
                 <<"u-ivy", "u-jon", "u-kim", "u-lee">>>>

\* A member info: complete, with an empty uuid, or without the uuid key.
InfoKinds == {"full", "empty_uuid", "no_uuid"}
MemberInfo(kind, uuid) ==
    CASE kind = "full" -> [uuid |-> uuid, contributed |-> 7, joined |-> "2024-01-01T00:00:00.000Z"]
      [] kind = "empty_uuid" -> [uuid |-> "", contributed |-> 7]
      [] OTHER -> [online |-> FALSE]

\* dict of player name -> info under the g-th rank key, in insertion order.
PlayerDicts(g) ==
    UNION {{[p \in 1..k |-> [name |-> PlayerNames[g][p], info |-> MemberInfo(kinds[p], PlayerUuids[g][p])]] :
              kinds \in [1..k -> InfoKinds]} : k \in 0..MaxPlayers}

\* Orders of distinct rank keys.
RankOrders ==
    UNION {{rs \in [1..n -> RankKeys] : \A a, b \in 1..n : a # b => rs[a] # rs[b]} :
              n \in 0..Cardinality(RankKeys)}

\* The dicts under the rank keys rs[g..], holding at most budget entries together.
RECURSIVE MembersFrom(_, _, _)
MembersFrom(rs, g, budget) ==
    IF g > Len(rs) THEN {<<>>}
    ELSE UNION {{<<[rank |-> rs[g], players |-> pd]>> \o rest :
                   rest \in MembersFrom(rs, g + 1, budget - Len(pd))} :
                   pd \in {x \in PlayerDicts(g) : Len(x) <= budget}}

RosterDocs ==
    {[name |-> "Guild", members |-> ms] : ms \in UNION {MembersFrom(rs, 1, MaxPlayers) : rs \in RankOrders}}

\* lastJoin strings: "", text that is no ISO-8601 date, an ISO date without an
\* offset (parsed to a naive datetime), an ISO date ending in Z at an instant.
EmptyString == [form |-> "empty"]
Garbage == [form |-> "garbage"]
Naive(t) == [form |-> "naive", instant |-> t]
Aware(t) == [form |-> "aware", instant |-> t]

\* The instant datetime.now(timezone.utc) reads, and the instants of the
\* lastJoin strings around it (half seconds).
Now == 0
LastJoinInstants == {Now - 5, Now - 4, Now + 1}

ProfileDocs ==
    {[playtime |-> 3], [playtime |-> 3, lastJoin |-> EmptyString]}
    \cup {[username |-> "Nick", lastJoin |-> Garbage]}
    \cup {[username |-> "Nick", playtime |-> 12, lastJoin |-> Naive(Now - 4)]}
    \cup {[username |-> "Nick", playtime |-> 12, lastJoin |-> Aware(t)] : t \in LastJoinInstants}

-----------------------------------------------------------------------------
(* fetch_guild_members *)

Falsy(v) == v = None \/ v = ""

Member(rank, name, info) ==
    [uuid |-> info.uuid,
     guild_name |-> name,
     rank |-> rank,
     contributed |-> IF "contributed" \in DOMAIN info THEN info.contributed ELSE 0,
     joined |-> IF "joined" \in DOMAIN info THEN info.joined ELSE "Unknown"]

\* Whether the inner loop skips the entry (lines 55-57).
SkipEntry(info) == Falsy(IF "uuid" \in DOMAIN info THEN info.uuid ELSE None)

\* Whether the outer loop skips the rank key (lines 52-53).
SkipRank_never(rank) == FALSE
SkipRank(rank) == rank = "total"

\* The inner loop, lines 54-64.
RECURSIVE AppendPlayers(_, _, _)
AppendPlayers(ms, rank, players) ==
    IF players = <<>> THEN ms
    ELSE LET e == Head(players)
         IN  AppendPlayers(IF SkipEntry(e.info) THEN ms ELSE Append(ms, Member(rank, e.name, e.info)),
                           rank, Tail(players))

\* The outer loop, lines 51-53.
RECURSIVE AppendRanks(_, _)
AppendRanks(ms, groups) ==
    IF groups = <<>> THEN ms
    ELSE LET g == Head(groups)
         IN  AppendRanks(IF SkipRank(g.rank) THEN ms ELSE AppendPlayers(ms, g.rank, g.players),
                         Tail(groups))

fetch_guild_members(doc) == AppendRanks(<<>>, doc.members)

-----------------------------------------------------------------------------
(* fetch_player_info *)

INF == [inf |-> TRUE]
Seconds(n) == [inf |-> FALSE, n |-> n]

NoDatetime == [tz |-> "None"]
Datetime(aware, t) == [tz |-> IF aware THEN "UTC" ELSE "naive", instant |-> t]

\* datetime.fromisoformat(last_join_str.replace("Z", "+00:00")), line 98.
fromisoformat(s) ==
    IF s.form = "garbage" THEN [ok |-> FALSE]
    ELSE [ok |-> TRUE, value |-> Datetime(s.form = "aware", s.instant)]

\* int(x) of x = d/2 seconds: truncation towards zero.
IntSeconds(d) == IF d >= 0 THEN d \div 2 ELSE 0 - ((0 - d) \div 2)

\* timedelta.days, timedelta.seconds of a duration of d half seconds.
Days(d) == d \div 172800
DaySeconds(d) == (d % 172800) \div 2

TypeError == [type |-> "TypeError", msg |-> "can't subtract offset-naive and offset-aware datetimes"]

Ok(v) == [raised |-> FALSE, value |-> v]
Raise(e) == [raised |-> TRUE, exc |-> e]

\* Lines 80-125, on the profile document and the reading of the clock.
fetch_player_info(uuid, doc, now) ==
    LET username == IF "username" \in DOMAIN doc THEN doc.username ELSE uuid
        playtime == IF "playtime" \in DOMAIN doc THEN doc.playtime ELSE 0
        absent == "lastJoin" \notin DOMAIN doc
    IN  IF absent \/ (~absent /\ doc.lastJoin = EmptyString) THEN
            Ok([current_name |-> username, playtime |-> playtime,
                delta_str |-> [text |-> "Never joined"],
                last_join_dt |-> NoDatetime, inactivity_seconds |-> INF])
        ELSE LET parsed == fromisoformat(doc.lastJoin)
             IN  IF ~parsed.ok THEN
                     Ok([current_name |-> username, playtime |-> playtime,
                         delta_str |-> [text |-> "Invalid date"],
                         last_join_dt |-> NoDatetime, inactivity_seconds |-> INF])
                 ELSE IF parsed.value.tz = "naive" THEN Raise(TypeError)    \* line 110
                 ELSE LET delta == now - parsed.value.instant
                      IN  Ok([current_name |-> username, playtime |-> playtime,
                              delta_str |-> [text |-> "ago", days |-> Days(delta),
                                             hours |-> DaySeconds(delta) \div 3600,
                                             minutes |-> (DaySeconds(delta) % 3600) \div 60],
                              last_join_dt |-> parsed.value,
                              inactivity_seconds |-> Seconds(IntSeconds(delta))])

-----------------------------------------------------------------------------
(* The sort of main, line 172 *)

\* key=lambda x: x.get("inactivity_seconds", 0)
SortKey(x) == IF "inactivity_seconds" \in DOMAIN x THEN x.inactivity_seconds ELSE Seconds(0)

\* Python's order on float("inf") and ints.
GE(a, b) == a.inf \/ (~b.inf /\ a.n >= b.n)
GT(a, b) == GE(a, b) /\ ~GE(b, a)

\* list.sort(reverse=True) is a stable descending sort: an element stays behind
\* every earlier element whose key is greater than or equal to its own.
Precedes_strict(a, b) == GT(a, b)
Precedes_ascending(a, b) == GE(b, a)
Precedes(a, b) == GE(a, b)

InsertSorted(s, x) ==
    LET k == Cardinality({j \in 1..Len(s) : Precedes(SortKey(s[j]), SortKey(x))})
    IN  SubSeq(s, 1, k) \o <<x>> \o SubSeq(s, k + 1, Len(s))

RECURSIVE SortInto(_, _)
SortInto(done, rest) ==
    IF rest = <<>> THEN done ELSE SortInto(InsertSorted(done, Head(rest)), Tail(rest))

SortedDescending(rows) == SortInto(<<>>, rows)

-----------------------------------------------------------------------------
(* The report file, lines 177-184 *)

NoFile == [exists |-> FALSE, open |-> FALSE, guild |-> None, generated |-> None, lines |-> <<>>]

\* One table line of the report.
Line(r) ==
    [guild_name |-> r.guild_name, current_name |-> r.current_name, rank |-> r.rank,
     playtime |-> r.playtime, delta_str |-> r.delta_str]

Render(rows) == [j \in 1..Len(rows) |-> Line(rows[j])]

\* What an earlier run left behind.
StaleReport ==
    [exists |-> TRUE, open |-> FALSE, guild |-> "GLD", generated |-> "earlier",
     lines |-> <<[guild_name |-> "Zed", current_name |-> "Zed", rank |-> "recruit",
                  playtime |-> 1, delta_str |-> [text |-> "Never joined"]]>>]

\* The error placeholder of lines 160-167.
ErrorRow(m, e) ==
    [uuid |-> m.uuid, guild_name |-> m.guild_name, current_name |-> "Error",
     rank |-> m.rank, playtime |-> 0, delta_str |-> [text |-> "Error", exc |-> e]]

\* merged = {**m, **info}, line 155.
Merged(m, info) == info @@ m

-----------------------------------------------------------------------------
(* The process *)

NoUrl == <<"", "">>
NoDoc == [name |-> None, members |-> <<>>]

EnvGuild == {None, "GLD"}
EnvWebhook == {None, "", "https://discord.example/api/webhooks/1"}

Init ==
    /\ environ \in [GUILD_PREFIX : EnvGuild, WEBHOOK_URL : EnvWebhook]
    /\ GUILD_PREFIX = None
    /\ WEBHOOK_URL = None
    /\ pc = "config"
    /\ exit_code = NotExited
    /\ error = [type |-> None]
    /\ url = NoUrl
    /\ attempt = 0
    /\ fetched = NotFetched
    /\ data = NoDoc
    /\ members = <<>>
    /\ i = 0
    /\ results = <<>>
    /\ file0 \in {NoFile, StaleReport}
    /\ file = file0
    /\ posts = 0
    /\ upload = "none"
    /\ requested = {}
    /\ exhausted = {}
    /\ log = <<>>

\* Lines 9-14: a variable missing from the environment ends the process with 1.
ConfigMissing ==
    /\ pc = "config"
    /\ environ.GUILD_PREFIX = None \/ environ.WEBHOOK_URL = None
    /\ pc' = "exited"
    /\ exit_code' = 1
    /\ UNCHANGED <<environ, GUILD_PREFIX, WEBHOOK_URL, error, url, attempt, fetched, data,
                   members, i, results, file, posts, upload, requested, exhausted, file0, log>>

\* Lines 10-11, then main calls fetch_guild_members, which calls safe_request.
ConfigLoaded ==
    /\ pc = "config"
    /\ environ.GUILD_PREFIX # None /\ environ.WEBHOOK_URL # None
    /\ GUILD_PREFIX' = environ.GUILD_PREFIX
    /\ WEBHOOK_URL' = environ.WEBHOOK_URL
    /\ pc' = "fetch_guild"
    /\ url' = API_GUILD_URL(environ.GUILD_PREFIX)
    /\ attempt' = 1
    /\ UNCHANGED <<environ, exit_code, error, fetched, data, members, i, results, file,
                   posts, upload, requested, exhausted, file0, log>>

\* A GET for the roster that fails before the last attempt.
GuildRetry ==
    /\ pc = "fetch_guild"
    /\ GetCanEnd("continue", attempt)
    /\ attempt' = attempt + 1
    /\ requested' = requested \cup {url}
    /\ UNCHANGED <<environ, GUILD_PREFIX, WEBHOOK_URL, pc, exit_code, error, url, fetched,
                   data, members, i, results, file, posts, upload, exhausted, file0, log>>

\* As GuildExhausted, had fetch_guild_members caught the error and returned [].
GuildExhausted_swallowed ==
    /\ pc = "fetch_guild"
    /\ GetCanEnd("raise", attempt)
    /\ requested' = requested \cup {url}
    /\ exhausted' = exhausted \cup {url}
    /\ pc' = "sort"
    /\ UNCHANGED <<environ, GUILD_PREFIX, WEBHOOK_URL, exit_code, error, url, attempt, fetched,
                   data, members, i, results, file, posts, upload, file0, log>>

\* The last GET for the roster fails: safe_request raises, nothing catches it in
\* fetch_guild_members or main, the interpreter exits with 1.
GuildExhausted ==
    /\ pc = "fetch_guild"
    /\ GetCanEnd("raise", attempt)
    /\ requested' = requested \cup {url}
    /\ exhausted' = exhausted \cup {url}
    /\ error' = FetchExhausted(url)
    /\ pc' = "exited"
    /\ exit_code' = 1
    /\ UNCHANGED <<environ, GUILD_PREFIX, WEBHOOK_URL, url, attempt, fetched, data, members,
                   i, results, file, posts, upload, file0, log>>

\* First call of safe_request in the loop of main for member k, or the end of the loop.
EnterLoop(ms, k) ==
    IF k <= Len(ms)
    THEN pc' = "fetch_player" /\ url' = API_PLAYER_URL(ms[k].uuid) /\ attempt' = 1
    ELSE pc' = "sort" /\ url' = NoUrl /\ attempt' = 0

\* A GET for the roster succeeds: lines 48-66, then lines 149-151.
GuildLoaded ==
    /\ pc = "fetch_guild"
    /\ GetCanEnd("return", attempt)
    /\ requested' = requested \cup {url}
    /\ \E doc \in RosterDocs :
          /\ data' = doc
          /\ members' = fetch_guild_members(doc)
          /\ EnterLoop(fetch_guild_members(doc), 1)
    /\ results' = <<>>
    /\ i' = 1
    /\ UNCHANGED <<environ, GUILD_PREFIX, WEBHOOK_URL, exit_code, error, fetched, file,
                   posts, upload, exhausted, file0, log>>

\* A GET for the profile of member i that fails before the last attempt.
PlayerRetry ==
    /\ pc = "fetch_player"
    /\ GetCanEnd("continue", attempt)
    /\ attempt' = attempt + 1
    /\ requested' = requested \cup {url}
    /\ UNCHANGED <<environ, GUILD_PREFIX, WEBHOOK_URL, pc, exit_code, error, url, fetched,
                   data, members, i, results, file, posts, upload, exhausted, file0, log>>

\* As PlayerExhausted, had the except branch appended nothing.
PlayerExhausted_dropsRow ==
    /\ pc = "fetch_player"
    /\ GetCanEnd("raise", attempt)
    /\ requested' = requested \cup {url}
    /\ exhausted' = exhausted \cup {url}
    /\ i' = i + 1
    /\ IF i + 1 <= Len(members)
       THEN pc' = "fetch_player" /\ url' = API_PLAYER_URL(members[i + 1].uuid) /\ attempt' = 1
       ELSE pc' = "sort" /\ url' = NoUrl /\ attempt' = 0
    /\ UNCHANGED <<environ, GUILD_PREFIX, WEBHOOK_URL, exit_code, error, fetched, data,
                   members, results, file, posts, upload, file0, log>>

\* As PlayerExhausted, had main not caught the error.
PlayerExhausted_aborts ==
    /\ pc = "fetch_player"
    /\ GetCanEnd("raise", attempt)
    /\ requested' = requested \cup {url}
    /\ exhausted' = exhausted \cup {url}
    /\ error' = FetchExhausted(url)
    /\ pc' = "exited"
    /\ exit_code' = 1
    /\ UNCHANGED <<environ, GUILD_PREFIX, WEBHOOK_URL, url, attempt, fetched, data, members,
                   i, results, file, posts, upload, file0, log>>

\* The last GET for the profile of member i fails: safe_request raises through
\* fetch_player_info, main catches it (line 158) and appends the placeholder.
PlayerExhausted ==
    /\ pc = "fetch_player"
    /\ GetCanEnd("raise", attempt)
    /\ requested' = requested \cup {url}
    /\ exhausted' = exhausted \cup {url}
    /\ results' = Append(results, ErrorRow(members[i], FetchExhausted(url)))
    /\ i' = i + 1
    /\ EnterLoop(members, i + 1)
    /\ UNCHANGED <<environ, GUILD_PREFIX, WEBHOOK_URL, exit_code, error, fetched, data,
                   members, file, posts, upload, file0, log>>

\* A GET for the profile of member i succeeds and fetch_player_info returns:
\* lines 155-156.
PlayerLoaded ==
    /\ pc = "fetch_player"
    /\ GetCanEnd("return", attempt)
    /\ requested' = requested \cup {url}
    /\ \E doc \in ProfileDocs :
          LET info == fetch_player_info(members[i].uuid, doc, Now)
          IN  /\ ~info.raised
              /\ results' = Append(results, Merged(members[i], info.value))
    /\ i' = i + 1
    /\ EnterLoop(members, i + 1)
    /\ UNCHANGED <<environ, GUILD_PREFIX, WEBHOOK_URL, exit_code, error, fetched, data,
                   members, file, posts, upload, exhausted, file0, log>>

\* A GET for the profile of member i succeeds and fetch_player_info raises (the
\* subtraction of line 110): main catches it (line 158) and appends the placeholder.
PlayerInfoRaised ==
    /\ pc = "fetch_player"
    /\ GetCanEnd("return", attempt)
    /\ requested' = requested \cup {url}
    /\ \E doc \in ProfileDocs :
          LET info == fetch_player_info(members[i].uuid, doc, Now)
          IN  /\ info.raised
              /\ results' = Append(results, ErrorRow(members[i], info.exc))
    /\ i' = i + 1
    /\ EnterLoop(members, i + 1)
    /\ UNCHANGED <<environ, GUILD_PREFIX, WEBHOOK_URL, exit_code, error, fetched, data,
                   members, file, posts, upload, exhausted, file0, log>>

\* Line 172.
SortResults ==
    /\ pc = "sort"
    /\ results' = SortedDescending(results)
    /\ pc' = "open"
    /\ UNCHANGED <<environ, GUILD_PREFIX, WEBHOOK_URL, exit_code, error, url, attempt,
                   fetched, data, members, i, file, posts, upload, requested, exhausted,
                   file0, log>>

\* Line 177: open(OUTPUT_FILE, "w") creates or truncates the file.
OpenReport ==
    /\ pc = "open"
    /\ file' = [exists |-> TRUE, open |-> TRUE, guild |-> None, generated |-> None, lines |-> <<>>]
    /\ pc' = "write"
    /\ UNCHANGED <<environ, GUILD_PREFIX, WEBHOOK_URL, exit_code, error, url, attempt,
                   fetched, data, members, i, results, posts, upload, requested, exhausted,
                   file0, log>>

\* Lines 178-184 and the end of the with block, which closes the file.
WriteReport ==
    /\ pc = "write"
    /\ file' = [exists |-> TRUE, open |-> FALSE, guild |-> GUILD_PREFIX, generated |-> "now",
                lines |-> Render(results)]
    /\ pc' = "webhook"
    /\ UNCHANGED <<environ, GUILD_PREFIX, WEBHOOK_URL, exit_code, error, url, attempt,
                   fetched, data, members, i, results, posts, upload, requested, exhausted,
                   file0, log>>

\* send_webhook_file returns to main, main returns, the interpreter exits with 0.
ReturnFromWebhook(how) ==
    /\ upload' = how
    /\ pc' = "exited"
    /\ exit_code' = 0

\* As WebhookSkipped, without the test of line 131: the POST is tried and fails.
WebhookSkipped_posts ==
    /\ pc = "webhook"
    /\ Falsy(WEBHOOK_URL)
    /\ posts' = posts + 1
    /\ upload' = "failed"
    /\ pc' = "exited"
    /\ exit_code' = 0
    /\ UNCHANGED <<environ, GUILD_PREFIX, WEBHOOK_URL, error, url, attempt, fetched, data,
                   members, i, results, file, requested, exhausted, file0, log>>

\* Lines 131-133.
WebhookSkipped ==
    /\ pc = "webhook"
    /\ Falsy(WEBHOOK_URL)
    /\ ReturnFromWebhook("skipped")
    /\ UNCHANGED <<environ, GUILD_PREFIX, WEBHOOK_URL, error, url, attempt, fetched, data,
                   members, i, results, file, posts, requested, exhausted, file0, log>>

\* Line 136 raises (the file cannot be opened for reading): caught at line 142.
WebhookOpenFailed ==
    /\ pc = "webhook"
    /\ ~Falsy(WEBHOOK_URL)
    /\ ReturnFromWebhook("open_error")
    /\ UNCHANGED <<environ, GUILD_PREFIX, WEBHOOK_URL, error, url, attempt, fetched, data,
                   members, i, results, file, posts, requested, exhausted, file0, log>>

\* As WebhookFailed, had the except clause of line 142 not caught the error.
WebhookFailed_escapes ==
    /\ pc = "webhook"
    /\ ~Falsy(WEBHOOK_URL)
    /\ {r \in GetOutcomes : r.kind = "Response" => raise_for_status(r)} # {}
    /\ posts' = posts + 1
    /\ upload' = "failed"
    /\ error' = [type |-> "RequestException"]
    /\ pc' = "exited"
    /\ exit_code' = 1
    /\ UNCHANGED <<environ, GUILD_PREFIX, WEBHOOK_URL, url, attempt, fetched, data,
                   members, i, results, file, requested, exhausted, file0, log>>

\* Line 139 is reached; the POST raises or answers 4xx/5xx: caught at line 142.
WebhookFailed ==
    /\ pc = "webhook"
    /\ ~Falsy(WEBHOOK_URL)
    /\ {r \in GetOutcomes : r.kind = "Response" => raise_for_status(r)} # {}
    /\ posts' = posts + 1
    /\ ReturnFromWebhook("failed")
    /\ UNCHANGED <<environ, GUILD_PREFIX, WEBHOOK_URL, error, url, attempt, fetched, data,
                   members, i, results, file, requested, exhausted, file0, log>>

\* Line 139 is reached and the POST is answered without an error status: line 141.
WebhookSent ==
    /\ pc = "webhook"
    /\ ~Falsy(WEBHOOK_URL)
    /\ {r \in GetOutcomes : r.kind = "Response" /\ ~raise_for_status(r)} # {}
    /\ posts' = posts + 1
    /\ ReturnFromWebhook("sent")
    /\ UNCHANGED <<environ, GUILD_PREFIX, WEBHOOK_URL, error, url, attempt, fetched, data,
                   members, i, results, file, requested, exhausted, file0, log>>

Next ==
    \/ ConfigMissing
    \/ ConfigLoaded
    \/ GuildRetry
    \/ GuildExhausted
    \/ GuildLoaded
    \/ PlayerRetry
    \/ PlayerExhausted
    \/ PlayerLoaded
    \/ PlayerInfoRaised
    \/ SortResults
    \/ OpenReport
    \/ WriteReport
    \/ WebhookSkipped
    \/ WebhookOpenFailed
    \/ WebhookFailed
    \/ WebhookSent

Spec == Init /\ [][Next]_vars

-----------------------------------------------------------------------------
(* safe_request on its own, with the responses it saw *)

FetchUrls == {API_GUILD_URL("GLD"), API_PLAYER_URL("u-ann")}

FetchInit ==
    /\ environ = [GUILD_PREFIX |-> "GLD", WEBHOOK_URL |-> ""]
    /\ GUILD_PREFIX = "GLD"
    /\ WEBHOOK_URL = ""
    /\ pc = "safe_request"
    /\ exit_code = NotExited
    /\ error = [type |-> None]
    /\ url \in FetchUrls
    /\ attempt = 1
    /\ fetched = NotFetched
    /\ data = NoDoc
    /\ members = <<>>
    /\ i = 0
    /\ results = <<>>
    /\ file0 = NoFile
    /\ file = NoFile
    /\ posts = 0
    /\ upload = "none"
    /\ requested = {}
    /\ exhausted = {}
    /\ log = <<>>

\* requests.get answers r and the loop goes to its next iteration.
FetchContinue ==
    /\ pc = "safe_request"
    /\ \E r \in GetOutcomes :
          /\ safe_request_step(r, attempt) = "continue"
          /\ log' = Append(log, r)
    /\ attempt' = attempt + 1
    /\ requested' = requested \cup {url}
    /\ UNCHANGED <<environ, GUILD_PREFIX, WEBHOOK_URL, pc, exit_code, error, url, fetched,
                   data, members, i, results, file, posts, upload, exhausted, file0>>

\* requests.get answers r and safe_request returns it.
FetchReturn ==
    /\ pc = "safe_request"
    /\ \E r \in GetOutcomes :
          /\ safe_request_step(r, attempt) = "return"
          /\ log' = Append(log, r)
          /\ fetched' = Returned(r)
    /\ pc' = "returned"
    /\ requested' = requested \cup {url}
    /\ UNCHANGED <<environ, GUILD_PREFIX, WEBHOOK_URL, exit_code, error, url, attempt, data,
                   members, i, results, file, posts, upload, exhausted, file0>>

\* requests.get answers r, the loop ends and line 41 raises.
FetchRaise ==
    /\ pc = "safe_request"
    /\ \E r \in GetOutcomes :
          /\ safe_request_step(r, attempt) = "raise"
          /\ log' = Append(log, r)
    /\ fetched' = Raised(FetchExhausted(url))
    /\ pc' = "raised"
    /\ requested' = requested \cup {url}
    /\ exhausted' = exhausted \cup {url}
    /\ UNCHANGED <<environ, GUILD_PREFIX, WEBHOOK_URL, exit_code, error, url, attempt, data,
                   members, i, results, file, posts, upload, file0>>

FetchNext == FetchContinue \/ FetchReturn \/ FetchRaise

SpecFetch == FetchInit /\ [][FetchNext]_vars

-----------------------------------------------------------------------------
(* Vocabulary of the properties *)

Is2xx(r) == r.kind = "Response" /\ r.status_code \in 200..299
Is429(r) == r.kind = "Response" /\ r.status_code = 429

\* A 429 or a request failure: no response, or an error status (4xx, 5xx).
FailedAttempt(r) == r.kind = "RequestException" \/ r.status_code \in 400..599

GuildUrl == API_GUILD_URL(environ.GUILD_PREFIX)
RosterExhausted == GuildUrl \in exhausted
RosterLoaded == data # NoDoc
ProfileExhausted(m) == API_PLAYER_URL(m.uuid) \in exhausted

\* The per-member loop has finished.
LoopDone == pc \in {"sort", "open", "write", "webhook"} \/ (pc = "exited" /\ RosterLoaded)
\* Line 172 has run.
Sorted == pc \in {"open", "write", "webhook"} \/ (pc = "exited" /\ RosterLoaded)
\* The report of this run is on disk, complete and closed.
ReportWritten ==
    /\ file.exists /\ ~file.open
    /\ file.guild = GUILD_PREFIX /\ file.generated = "now"
    /\ file.lines = Render(results)

HasDuration(r) == "inactivity_seconds" \in DOMAIN r
IsSentinel(r) == HasDuration(r) /\ r.inactivity_seconds.inf
IsFinite(r) == HasDuration(r) /\ ~r.inactivity_seconds.inf
RosterIndex(u) == CHOOSE k \in 1..Len(members) : members[k].uuid = u

\* The entries of the roster document that are under a rank key other than
\* "total" and carry a non-empty uuid, as <<rank position, entry position>>.
Entries == UNION {{<<g, p>> : p \in 1..Len(data.members[g].players)} : g \in 1..Len(data.members)}
EntryOf(gp) == data.members[gp[1]].players[gp[2]]
Valid(gp) ==
    /\ data.members[gp[1]].rank # "total"
    /\ "uuid" \in DOMAIN EntryOf(gp).info
    /\ EntryOf(gp).info.uuid \notin {"", None}
ValidBefore(gp) ==
    {x \in Entries : Valid(x) /\ (x[1] < gp[1] \/ (x[1] = gp[1] /\ x[2] < gp[2]))}

-----------------------------------------------------------------------------
(* Properties *)

C2_OneRowPerMember ==
    /\ pc = "fetch_player" => Len(results) = i - 1
    /\ LoopDone =>
          /\ Len(results) = Len(members)
          /\ \A k \in 1..Len(members) :
                /\ Cardinality({j \in 1..Len(results) : results[j].uuid = members[k].uuid}) = 1
                /\ \E j \in 1..Len(results) :
                      /\ results[j].uuid = members[k].uuid
                      /\ results[j].guild_name = members[k].guild_name
                      /\ results[j].rank = members[k].rank
          /\ pc = "sort" => \A k \in 1..Len(members) : results[k].uuid = members[k].uuid

C2_Witness ==
    /\ pc = "exited" /\ exit_code = 0
    /\ Len(members) = 2
    /\ ProfileExhausted(members[1]) /\ ~ProfileExhausted(members[2])
    /\ results[1].uuid = members[2].uuid

\* C3: a member whose profile fetch is exhausted gets the placeholder row (current
\* name "Error", playtime 0, rank and in-guild name of the member); the run is not
\* aborted, every later member is fetched, the report holds a line for every
\* member and the exit status is 0.
C3_ErrorIsolation ==
    \A k \in 1..Len(members) : ProfileExhausted(members[k]) =>
        /\ exit_code # 1 /\ error.type = None
        /\ \E j \in 1..Len(results) :
              /\ results[j].uuid = members[k].uuid
              /\ results[j].current_name = "Error"
              /\ results[j].playtime = 0
              /\ results[j].rank = members[k].rank
              /\ results[j].guild_name = members[k].guild_name
        /\ pc = "fetch_player" => i > k
        /\ pc = "exited" =>
              /\ exit_code = 0
              /\ \A n \in 1..Len(members) : API_PLAYER_URL(members[n].uuid) \in requested
              /\ ReportWritten
              /\ Len(file.lines) = Len(members)
              /\ \A n \in 1..Len(members) : \E j \in 1..Len(file.lines) :
                    /\ file.lines[j].guild_name = members[n].guild_name
                    /\ file.lines[j].rank = members[n].rank

C3_Witness ==
    /\ pc = "exited" /\ exit_code = 0
    /\ Len(members) = 2
    /\ ProfileExhausted(members[1])
    /\ \E j \in 1..Len(file.lines) :
          file.lines[j].guild_name = members[2].guild_name /\ file.lines[j].current_name = "Nick"

\* C4: when the roster fetch is exhausted the run ends there with a non-zero
\* status and the exhaustion error of safe_request: no profile was requested, the
\* report file is as it was, nothing was uploaded.
C4_RosterFatal ==
    RosterExhausted =>
        /\ pc = "exited" /\ exit_code # NotExited /\ exit_code # 0
        /\ error = FetchExhausted(GuildUrl)
        /\ requested = {GuildUrl}
        /\ members = <<>> /\ results = <<>>
        /\ file = file0
        /\ posts = 0 /\ upload = "none"

C4_Witness == RosterExhausted /\ pc = "exited" /\ file0 = StaleReport /\ WEBHOOK_URL # ""

\* C5: in the sorted rows every placeholder row of an exhausted profile fetch
\* comes before every row with a finite inactivity duration.
C5_ErrorRowsOnTop ==
    Sorted =>
        \A a, b \in 1..Len(results) :
            (ProfileExhausted(results[a]) /\ IsFinite(results[b])) => a < b

\* C6: in the sorted rows every sentinel row comes before every row with a
\* finite inactivity duration, and the durations never increase down the list
\* (a row without a duration counting as the default key of the sort).
C6_SentinelFirstDescending ==
    Sorted =>
        \A a, b \in 1..Len(results) : a < b =>
            /\ IsSentinel(results[b]) => IsSentinel(results[a])
            /\ (IsFinite(results[a]) /\ IsFinite(results[b])) =>
                  results[a].inactivity_seconds.n >= results[b].inactivity_seconds.n
            /\ (~HasDuration(results[a]) /\ IsFinite(results[b])) =>
                  0 >= results[b].inactivity_seconds.n
            /\ (IsFinite(results[a]) /\ ~HasDuration(results[b])) =>
                  results[a].inactivity_seconds.n >= 0

C6_Witness ==
    /\ pc = "open"
    /\ Len(results) = 2
    /\ IsSentinel(results[1]) /\ IsFinite(results[2])
    /\ results[1].uuid = members[2].uuid

\* C7: two rows of equal key (equal durations, two sentinels, two rows on the
\* default key, or a row of duration 0 and a row on the default key) keep their
\* roster order through the sort.
C7_StableSort ==
    Sorted =>
        \A a, b \in 1..Len(results) :
            (a < b /\ SortKey(results[a]) = SortKey(results[b])) =>
                RosterIndex(results[a].uuid) < RosterIndex(results[b].uuid)

C7_Witness ==
    /\ pc = "open"
    /\ Len(results) = 2
    /\ IsFinite(results[1]) /\ IsFinite(results[2])
    /\ results[1].inactivity_seconds = results[2].inactivity_seconds
    /\ results[1].last_join_dt # results[2].last_join_dt

\* C8 as stated: with the webhook URL unset (absent from the environment, or
\* empty) a run whose roster fetch succeeds writes the report, uploads nothing
\* and exits with 0.
C8_UnsetWebhook ==
    (pc = "exited" /\ environ.GUILD_PREFIX # None /\ Falsy(environ.WEBHOOK_URL)
       /\ ~RosterExhausted) =>
        /\ exit_code = 0
        /\ posts = 0
        /\ ReportWritten

\* C8 amended: with WEBHOOK_URL present in the environment and empty, no POST is
\* ever issued, and a run whose roster fetch succeeds fetches every profile,
\* writes the report and exits with 0; with WEBHOOK_URL absent from the
\* environment the process exits with 1 before any request or write.
C8_EmptyWebhook ==
    /\ (environ.GUILD_PREFIX # None /\ environ.WEBHOOK_URL = "") =>
          /\ posts = 0
          /\ (pc = "exited" /\ ~RosterExhausted) =>
                /\ exit_code = 0
                /\ upload = "skipped"
                /\ GuildUrl \in requested
                /\ \A n \in 1..Len(members) : API_PLAYER_URL(members[n].uuid) \in requested
                /\ ReportWritten
                /\ Len(file.lines) = Len(members)
    /\ (environ.WEBHOOK_URL = None /\ pc = "exited") =>
          /\ exit_code = 1
          /\ requested = {} /\ posts = 0 /\ file = file0

C8_Witness ==
    /\ pc = "exited" /\ environ.WEBHOOK_URL = "" /\ exit_code = 0
    /\ Len(members) = 2 /\ Len(file.lines) = 2
    /\ file0 = StaleReport

\* C9: a POST is issued only with the report complete and closed on disk, at most
\* once, and send_webhook_file always returns normally: whatever the upload did,
\* the file is left as written and the process exits with 0.
C9_UploadNonFatal ==
    [][/\ posts' # posts => (posts = 0 /\ posts' = 1 /\ ReportWritten /\ file' = file)
       /\ pc = "webhook" =>
             (ReportWritten /\ file' = file /\ results' = results
                /\ pc' = "exited" /\ exit_code' = 0 /\ error' = error
                /\ upload' \in {"skipped", "open_error", "failed", "sent"})]_vars

C9_Witness ==
    /\ pc = "exited" /\ exit_code = 0
    /\ upload = "failed" /\ posts = 1
    /\ ReportWritten /\ Len(file.lines) = 2

\* C10: fetch_guild_members returns exactly the entries under a rank key other
\* than "total" that carry a non-empty uuid, in document order; no member and no
\* row exists for any other entry.
C10_RosterFilter ==
    RosterLoaded =>
        /\ Len(members) = Cardinality({gp \in Entries : Valid(gp)})
        /\ \A gp \in Entries : Valid(gp) =>
              LET m == members[Cardinality(ValidBefore(gp)) + 1]
              IN  /\ m.uuid = EntryOf(gp).info.uuid
                  /\ m.guild_name = EntryOf(gp).name
                  /\ m.rank = data.members[gp[1]].rank
        /\ \A k \in 1..Len(members) : members[k].rank # "total" /\ ~Falsy(members[k].uuid)
        /\ \A gp \in Entries : ~Valid(gp) =>
              /\ \A j \in 1..Len(results) :
                    ~(results[j].guild_name = EntryOf(gp).name
                        /\ results[j].rank = data.members[gp[1]].rank)
              /\ "uuid" \in DOMAIN EntryOf(gp).info =>
                    API_PLAYER_URL(EntryOf(gp).info.uuid) \notin requested

C10_Witness ==
    /\ pc = "exited" /\ exit_code = 0
    /\ \E gp \in Entries : ~Valid(gp) /\ data.members[gp[1]].rank = "total"
                              /\ "uuid" \in DOMAIN EntryOf(gp).info /\ EntryOf(gp).info.uuid # ""
    /\ Len(results) = 1

=============================================================================
